---- MODULE Spec2Model ----
(***************************************************************************)
(* A model of the example pipeline of yukarin_sa / yukarin_s:              *)
(*   split_mora, f0_mean and FeatureDataset.extract_input of               *)
(*   src/yukarin_sa/dataset.py, and FeatureDataset.extract_input of        *)
(*   src/yukarin_s/dataset.py.                                             *)
(*                                                                         *)
(* Conventions.                                                            *)
(*  - A Python list / numpy array is a sequence; Python position i is      *)
(*    element i+1 of the sequence.                                         *)
(*  - An Optional value is a sequence of length at most one: None is << >> *)
(*    and a present value x is <<x>>.                                      *)
(*  - Times (JvsPhoneme.start / .end) are counted in half seconds, so a    *)
(*    time of h stands for h/2 s; rates are whole samples per second.      *)
(*  - A float is an extended rational <<n, d>>: d > 0 is the fraction n/d  *)
(*    in lowest terms, <<0, 0>> is NaN, <<1, 0>> and <<-1, 0>> are +inf    *)
(*    and -inf.  The rounding of astype(float32) is not modelled.          *)
(***************************************************************************)
EXTENDS Integers, Sequences, FiniteSets, TLC

VARIABLES inputs, cfg, call, gen, hist, config, world, datasets

\* inputs, cfg: the inputs and settings of the FeatureDataset in use.
\* call: the running calls.  gen: the module-level generator numpy.random.
\* hist: what has been returned so far.
\* config: the DatasetConfig given to create_dataset.  world: what
\* create_dataset finds outside the program (the files the patterns match,
\* the speaker file, the output of RandomState(seed)).  datasets: what the
\* runs of create_dataset returned.
indexVars == <<config, world, datasets>>

vars == <<inputs, cfg, call, gen, hist, config, world, datasets>>

\* ---------------------------------------------------------------- bounds

\* Longest phoneme sequence handed to split_mora on its own.
MaxMoraLen == 4

\* Longest frame-rate signal handed to f0_mean on its own.
MaxSig == 3

\* ---------------------------------------------------- phoneme vocabulary

unvoiced_mora_phoneme_list == {"A", "I", "U", "E", "O", "cl", "pau"}

mora_phoneme_list == {"a", "i", "u", "e", "o", "N"} \cup unvoiced_mora_phoneme_list

voiced_phoneme_list ==
    {"a", "i", "u", "e", "o", "N"}
        \cup {"n", "m", "y", "r", "w", "g", "z", "j", "d", "b"}
        \cup {"ny", "my", "ry", "gy", "by"}

\* The symbols the inputs are drawn from: a voiced mora vowel, an unvoiced
\* mora phoneme, a voiced consonant and an unvoiced consonant.
Alphabet == {"a", "pau", "n", "k"}

\* JvsPhoneme.phoneme_id: the position of the symbol in JvsPhoneme.phoneme_list.
phoneme_id(p) ==
    CASE p = "pau" -> 0
      [] p = "a" -> 4
      [] p = "k" -> 19
      [] p = "n" -> 23
      [] OTHER -> 39

\* ------------------------------------------------------- Python helpers

None == << >>

Some(x) == <<x>>

Min(a, b) == IF a < b THEN a ELSE b

Max(a, b) == IF a > b THEN a ELSE b

SeqsUpTo(S, n) == UNION {[1..k -> S] : k \in 0..n}

\* s[lo:hi] for lo, hi >= 0: both ends are clamped to the length.
PySlice(s, lo, hi) ==
    LET l == Min(lo, Len(s))
        h == Min(hi, Len(s))
    IN  IF h <= l THEN << >> ELSE SubSeq(s, l + 1, h)

\* s[i], where a negative i counts from the end.
PyIndex(s, i) == IF i < 0 THEN s[Len(s) + i + 1] ELSE s[i + 1]

\* a[idx] for a list idx of positions (numpy fancy indexing: a fresh array).
Take(a, idx) == [k \in 1..Len(idx) |-> a[idx[k] + 1]]

\* a[lo:hi] = v, the slice clamped as in PySlice.
SliceAssign(a, lo, hi, v) ==
    [k \in 1..Len(a) |-> IF k > lo /\ k <= hi THEN v ELSE a[k]]

\* numpy.pad(a, [pre, post], constant_values=v)
NumpyPad(a, pre, post, v) ==
    [k \in 1..pre |-> v] \o a \o [k \in 1..post |-> v]

RECURSIVE SumSeq(_)
SumSeq(s) == IF s = << >> THEN 0 ELSE s[1] + SumSeq(Tail(s))

\* ------------------------------------------------------- float helpers

Abs(x) == IF x < 0 THEN -x ELSE x

Sign(x) == IF x > 0 THEN 1 ELSE IF x < 0 THEN -1 ELSE 0

RECURSIVE GCD(_, _)
GCD(a, b) == IF b = 0 THEN a ELSE GCD(b, a % b)

\* n / d in floating point: x/0 is +-inf and 0/0 is NaN (a warning, no exception).
FDiv(n, d) ==
    IF d = 0 THEN <<Sign(n), 0>>
    ELSE LET g == GCD(Abs(n), Abs(d))
         IN  <<(Sign(d) * n) \div g, Abs(d) \div g>>

FZero == <<0, 1>>

IsNaN(x) == x = <<0, 0>>

IsInf(x) == x[2] = 0 /\ x[1] # 0

IsFinite(x) == x[2] > 0

\* x * k for a finite x and an integer k.
FMulInt(x, k) == FDiv(x[1] * k, x[2])

\* x + y for finite x and y.
FAdd(x, y) == FDiv(x[1] * y[2] + y[1] * x[2], x[2] * y[2])

\* x / k for a finite x and an integer k (0/0 is NaN, x/0 is +-inf).
FDivInt(x, k) == IF k = 0 THEN <<Sign(x[1]), 0>> ELSE FDiv(x[1], x[2] * k)

\* ---------------------------------------------------------- split_mora

split_mora_vowel_indexes(phoneme_list) ==
    LET F[k \in 0..Len(phoneme_list)] ==
            IF k = 0 THEN << >>
            ELSE IF phoneme_list[k].phoneme \in mora_phoneme_list
                 THEN Append(F[k - 1], k - 1)
                 ELSE F[k - 1]
    IN  F[Len(phoneme_list)]

\* The entry of consonant_phoneme_list for the consecutive vowel positions
\* prev and post.
ConsonantBetween(phoneme_list, prev, post) ==
    IF post - prev = 1 THEN None ELSE Some(phoneme_list[post])

split_mora(phoneme_list) ==
    LET vowel_indexes == split_mora_vowel_indexes(phoneme_list)
        n == Len(vowel_indexes)
    IN  [consonant_phoneme_list |->
            <<None>> \o [k \in 1..(n - 1) |->
                ConsonantBetween(phoneme_list, vowel_indexes[k], vowel_indexes[k + 1])],
         vowel_phoneme_list |-> Take(phoneme_list, vowel_indexes),
         vowel_indexes |-> vowel_indexes]

\* ------------------------------------------------------------- f0_mean

\* indexes = numpy.floor(numpy.array(split_second_list) * rate).astype(int),
\* with the times in half seconds.
SplitIndexes(split_second_list, rate) ==
    [k \in 1..Len(split_second_list) |-> (split_second_list[k] * rate) \div 2]

\* numpy.split(a, indexes): the sub-arrays a[0:i1], a[i1:i2], ..., a[ik:].
NumpySplit(a, indexes) ==
    LET div == <<0>> \o indexes \o <<Len(a)>>
    IN  [k \in 1..(Len(indexes) + 1) |-> PySlice(a, div[k], div[k + 1])]

\* The positions of a holding a strictly positive sample (the mask a > 0).
Positive(a) == {k \in 1..Len(a) : a[k] > 0}

RECURSIVE SumOver(_, _)
SumOver(f, S) ==
    IF S = {} THEN 0
    ELSE LET k == CHOOSE x \in S : TRUE IN f[k] + SumOver(f, S \ {k})

\* numpy.mean(a[a > 0]): NaN for an empty selection.
BucketMean(a) == FDiv(SumOver(a, Positive(a)), Cardinality(Positive(a)))

\* numpy.sum(a[a > 0] * b[a > 0]) / numpy.sum(b[a > 0])
BucketWeightedMean(a, b) ==
    FDiv(SumOver([k \in 1..Len(a) |-> a[k] * b[k]], Positive(a)),
         SumOver(b, Positive(a)))

\* output[numpy.isnan(output)] = 0
NanToZero(output) ==
    [k \in 1..Len(output) |-> IF IsNaN(output[k]) THEN FZero ELSE output[k]]

f0_mean(f0, rate, split_second_list, weight) ==
    LET indexes == SplitIndexes(split_second_list, rate)
        as == NumpySplit(f0, indexes)
        output ==
            IF weight = None
            THEN [k \in 1..Len(as) |-> BucketMean(as[k])]
            ELSE LET bs == NumpySplit(weight[1], indexes)
                 IN  [k \in 1..Len(as) |-> BucketWeightedMean(as[k], bs[k])]
    IN  NanToZero(output)

\* --------------------------------------------------------- input shapes

\* A phoneme list with the given symbols; dur[k] is the length of segment k
\* (in half seconds), the segments contiguous from time 0.
Phonemes(symbols, dur) ==
    [k \in 1..Len(symbols) |->
        [phoneme |-> symbols[k],
         start |-> SumSeq(SubSeq(dur, 1, k - 1)),
         end |-> SumSeq(SubSeq(dur, 1, k))]]

GenInit == [pos |-> 0, stream |-> << >>]

\* No create_dataset is involved.
NoIndex ==
    /\ config = << >>
    /\ world = << >>
    /\ datasets = << >>

\* ------------------------------------------------- split_mora on its own

MoraInit ==
    /\ inputs \in {[phoneme_list |-> Phonemes(s, [k \in 1..Len(s) |-> 2])] :
                      s \in SeqsUpTo(Alphabet, MaxMoraLen) \ {<< >>}}
    /\ cfg = [dataset |-> "split_mora"]
    /\ call = [pc |-> "start"]
    /\ gen = GenInit
    /\ hist = << >>
    /\ NoIndex

MoraCall ==
    /\ call.pc = "start"
    /\ call' = [pc |-> "done", ret |-> split_mora(inputs.phoneme_list)]
    /\ UNCHANGED <<inputs, cfg, gen, hist, indexVars>>

SpecMora == MoraInit /\ [][MoraCall]_vars

\* C4: for every phoneme sequence split_mora returns a consonant list and a
\* vowel list of equal length whose first entry, if any, is absent, and all
\* three outputs are empty when the sequence holds no mora vowel.
C4_SplitMoraShape ==
    call.pc = "done" =>
        LET r == call.ret
        IN  /\ Len(r.consonant_phoneme_list) = Len(r.vowel_phoneme_list)
            /\ (r.consonant_phoneme_list # << >> => r.consonant_phoneme_list[1] = None)
            /\ (r.vowel_indexes = << >> =>
                    /\ r.consonant_phoneme_list = << >>
                    /\ r.vowel_phoneme_list = << >>)

\* C5: for every k >= 1 consonant_list[k] is the segment just before
\* vowel_indexes[k] exactly when the gap to vowel_indexes[k-1] is 2, and is
\* absent for every other gap.
C5_ConsonantIffGapTwo ==
    call.pc = "done" =>
        LET r == call.ret
            vi == r.vowel_indexes
        IN  \A k \in 2..Len(vi) :
                r.consonant_phoneme_list[k] =
                    IF vi[k] - vi[k - 1] = 2
                    THEN Some(PyIndex(inputs.phoneme_list, vi[k] - 1))
                    ELSE None

\* --------------------------------------------------- f0_mean on its own

F0Samples == {0, 2, 3}

WeightSamples == {-1, 0, 1}

\* Non-decreasing lists of at most two boundary times.
SplitLists(maxTime) ==
    {s \in SeqsUpTo(0..maxTime, 2) : \A k \in 1..(Len(s) - 1) : s[k] <= s[k + 1]}

F0Init ==
    /\ \E n \in 0..MaxSig :
         \E f0 \in [1..n -> F0Samples] :
           \E weight \in {None} \cup {Some(w) : w \in [1..n -> WeightSamples]} :
             \E rate \in {1, 2} :
               \E split \in SplitLists(MaxSig + 1) :
                 inputs = [f0 |-> f0, rate |-> rate,
                           split_second_list |-> split, weight |-> weight]
    /\ cfg = [dataset |-> "f0_mean"]
    /\ call = [pc |-> "start"]
    /\ gen = GenInit
    /\ hist = << >>
    /\ NoIndex

F0Call ==
    /\ call.pc = "start"
    /\ call' = [pc |-> "done",
                ret |-> f0_mean(inputs.f0, inputs.rate,
                                inputs.split_second_list, inputs.weight)]
    /\ UNCHANGED <<inputs, cfg, gen, hist, indexVars>>

SpecF0 == F0Init /\ [][F0Call]_vars

\* The samples of bucket k of the call's signal and of its weight.
F0Bucket(k) ==
    NumpySplit(inputs.f0, SplitIndexes(inputs.split_second_list, inputs.rate))[k]

WeightBucket(k) ==
    NumpySplit(inputs.weight[1],
               SplitIndexes(inputs.split_second_list, inputs.rate))[k]

\* C6: the output of f0_mean holds no NaN and no infinity; a bucket with no
\* strictly positive sample, and a weighted bucket whose qualifying weights
\* sum to zero, yield exactly 0.
C6_NoNanNoInf ==
    call.pc = "done" =>
        \A k \in 1..Len(call.ret) :
            /\ IsFinite(call.ret[k])
            /\ (Positive(F0Bucket(k)) = {} => call.ret[k] = FZero)
            /\ (inputs.weight # None
                    /\ SumOver(WeightBucket(k), Positive(F0Bucket(k))) = 0
                 => call.ret[k] = FZero)

\* =====================================================================
\* FeatureDataset.extract_input
\* =====================================================================

\* Longest phoneme sequence of an utterance.
MaxLen == 2

SamplingLengths == 1..(MaxLen + 1)

F0ProcessMode == {"phoneme", "mora", "voiced_mora"}

\* <<phoneme_mask_max_length, phoneme_mask_num, accent_mask_max_length,
\*   accent_mask_num>>: no masking (the test dataset's setting), both passes
\* once, each pass disabled by one 0, a phoneme mask that can be longer
\* than the example.
MaskConfigs ==
    {<<0, 0, 0, 0>>, <<2, 1, 2, 1>>, <<0, 1, 2, 0>>, <<MaxLen + 3, 1, 0, 0>>}

\* Each pass twice; used in mora mode with a window of MaxLen units.
RepeatedMaskConfigs == {<<2, 2, 0, 0>>, <<0, 0, 2, 2>>}

\* The numeric side of an utterance is drawn from two profiles.
\*   0: every segment lasts 1 s, pitch at 1 sample/s, rising and all
\*      positive; no volume; every accent marker set.
\*   1: segments of 0.5 s and 1.5 s in turn, pitch at 2 samples/s with
\*      unvoiced (0) samples in it, so that some buckets hold no positive
\*      sample; a positive volume one sample shorter than the pitch; mixed
\*      accent markers.
Profiles == {0, 1}

Duration(profile, k) ==
    IF profile = 0 THEN 2 ELSE IF k % 2 = 1 THEN 1 ELSE 3

Rate(profile) == IF profile = 1 THEN 2 ELSE 1

F0Signal(profile, n) ==
    LET len == IF profile = 1
               THEN SumSeq([k \in 1..n |-> Duration(1, k)])
               ELSE n
    IN  [j \in 1..len |->
            IF profile = 1 /\ j % 3 = 1 THEN 0 ELSE 10 * j]

VolumeSignal(profile, n) ==
    IF profile = 0 THEN None
    ELSE Some([array |-> [j \in 1..(Len(F0Signal(1, n)) - 1) |-> 1 + (j % 2)],
               rate |-> Rate(1)])

AccentMarkers(profile, n) ==
    IF profile = 0
    THEN [start_accent_list |-> [k \in 1..n |-> TRUE],
          end_accent_list |-> [k \in 1..n |-> TRUE],
          start_accent_phrase_list |-> [k \in 1..n |-> TRUE],
          end_accent_phrase_list |-> [k \in 1..n |-> TRUE]]
    ELSE [start_accent_list |-> [k \in 1..n |-> k % 2 = 1],
          end_accent_list |-> [k \in 1..n |-> k % 2 = 0],
          start_accent_phrase_list |-> [k \in 1..n |-> k = 1],
          end_accent_phrase_list |-> [k \in 1..n |-> k = n]]

\* yukarin_sa.dataset.Input
Input(symbols, profile) ==
    LET n == Len(symbols)
        acc == AccentMarkers(profile, n)
    IN  [phoneme_list |-> Phonemes(symbols, [k \in 1..n |-> Duration(profile, k)]),
         start_accent_list |-> acc.start_accent_list,
         end_accent_list |-> acc.end_accent_list,
         start_accent_phrase_list |-> acc.start_accent_phrase_list,
         end_accent_phrase_list |-> acc.end_accent_phrase_list,
         f0 |-> [array |-> F0Signal(profile, n), rate |-> Rate(profile)],
         volume |-> VolumeSignal(profile, n)]

\* yukarin_s.dataset.Input: the pitch is optional (absent in profile 0).
InputS(symbols, profile) ==
    LET n == Len(symbols)
    IN  [phoneme_list |-> Phonemes(symbols, [k \in 1..n |-> Duration(profile, k)]),
         f0 |-> IF profile = 0 THEN None
                ELSE Some([array |-> F0Signal(profile, n), rate |-> Rate(profile)])]

\* SamplingData.resample(rate) of a volume sampled at the pitch's own rate:
\* the inputs hold no volume of another rate.
Resample(volume, rate) == volume.array

\* ------------------------------------------------ lines 150-220: assembly

\* new_f0 of the voiced_mora branch.
VoicedMoraF0(phoneme_list_data, vowel_indexes, f0) ==
    LET phoneme_length_list ==
            [k \in 1..Len(phoneme_list_data) |->
                phoneme_list_data[k].end - phoneme_list_data[k].start]
    IN  [i \in 1..Len(vowel_indexes) |->
            LET d == vowel_indexes[i] - (IF i = 1 THEN 0 ELSE vowel_indexes[i - 1])
                index == vowel_indexes[i]
            IN  IF \/ d = 1
                   \/ PyIndex(phoneme_list_data, index - 1).phoneme
                          \notin voiced_phoneme_list
                THEN PyIndex(f0, index)
                ELSE LET a == FMulInt(PyIndex(f0, index - 1),
                                      PyIndex(phoneme_length_list, index - 1))
                         b == FMulInt(PyIndex(f0, index),
                                      PyIndex(phoneme_length_list, index))
                     IN  FDivInt(FAdd(a, b),
                                 PyIndex(phoneme_length_list, index)
                                     + PyIndex(phoneme_length_list, index - 1))]

MaskUnvoicedKeep(f0, voiced) == f0

\* f0[~voiced] = 0
MaskUnvoiced(f0, voiced) ==
    [k \in 1..Len(f0) |-> IF voiced[k] THEN f0[k] ELSE FZero]

\* The full-length arrays of lines 150-220, before the window is taken.
\* err is "TypeError" when voiced is an empty (hence float) array, which
\* the operator ~ rejects.
Assembled(input, f0_process_mode) ==
    LET sm == split_mora(input.phoneme_list)
        vowel_indexes == sm.vowel_indexes
        rate == input.f0.rate
        volume_array ==
            IF input.volume # None THEN Some(Resample(input.volume[1], rate)) ELSE None
        min_length ==
            IF volume_array # None
            THEN Min(Len(input.f0.array), Len(volume_array[1]))
            ELSE Len(input.f0.array)
        f0_array == PySlice(input.f0.array, 0, min_length)
        weight ==
            IF volume_array # None
            THEN Some(PySlice(volume_array[1], 0, min_length))
            ELSE None
        f0_phoneme ==
            f0_mean(f0_array, rate,
                    [k \in 1..(Len(input.phoneme_list) - 1) |->
                        input.phoneme_list[k].end],
                    weight)
        new_f0 ==
            CASE f0_process_mode = "phoneme" -> f0_phoneme
              [] f0_process_mode = "mora" -> Take(f0_phoneme, vowel_indexes)
              [] OTHER -> VoicedMoraF0(input.phoneme_list, vowel_indexes, f0_phoneme)
        phoneme_list_data ==
            IF f0_process_mode = "phoneme"
            THEN input.phoneme_list ELSE sm.vowel_phoneme_list
        consonant_phoneme_list ==
            IF f0_process_mode = "phoneme" THEN None
            ELSE Some([k \in 1..Len(sm.consonant_phoneme_list) |->
                        IF sm.consonant_phoneme_list[k] # None
                        THEN phoneme_id(sm.consonant_phoneme_list[k][1].phoneme)
                        ELSE -1])
        voiced ==
            [k \in 1..Len(phoneme_list_data) |->
                phoneme_list_data[k].phoneme \in voiced_phoneme_list]
    IN  [err |-> IF Len(phoneme_list_data) = 0 THEN "TypeError" ELSE "",
         vowel_indexes |-> vowel_indexes,
         phoneme_list_data |-> phoneme_list_data,
         phoneme_list |->
            [k \in 1..Len(phoneme_list_data) |->
                phoneme_id(phoneme_list_data[k].phoneme)],
         consonant_phoneme_list |-> consonant_phoneme_list,
         start_accent_list |-> Take(input.start_accent_list, vowel_indexes),
         end_accent_list |-> Take(input.end_accent_list, vowel_indexes),
         start_accent_phrase_list |->
            Take(input.start_accent_phrase_list, vowel_indexes),
         end_accent_phrase_list |->
            Take(input.end_accent_phrase_list, vowel_indexes),
         f0_phoneme |-> f0_phoneme,
         new_f0 |-> new_f0,
         voiced |-> voiced,
         f0 |-> IF Len(phoneme_list_data) = 0 THEN new_f0
                ELSE MaskUnvoiced(new_f0, voiced)]

\* ------------------------------------------------------ the call's state

\* The local variables of one call of extract_input.  full is the assembled
\* full-length arrays (absent before line 220 is passed), draws the random
\* draws the call has made, failed the draw that raised, data the returned
\* example.
CallInit ==
    [pc |-> "start", i |-> 0, err |-> "", failed |-> None,
     length |-> 0, sampling_length |-> 0, padding_length |-> 0,
     offset |-> 0, pad_pre |-> 0, pad_post |-> 0,
     full |-> None,
     phoneme_list |-> << >>, consonant_phoneme_list |-> None,
     start_accent_list |-> << >>, end_accent_list |-> << >>,
     start_accent_phrase_list |-> << >>, end_accent_phrase_list |-> << >>,
     f0 |-> << >>, voiced |-> << >>, padded |-> << >>,
     phoneme_length |-> << >>,
     n |-> 0, mask_length |-> 0, draws |-> << >>, data |-> None]

\* ------------------------------------------------ numpy.random (global)

\* numpy.random.randint(high) raises ValueError unless high > 0.
RandintRaises(high) == high <= 0

\* gen is the module-level generator numpy.random.  Its output from a given
\* state is fixed but unknown until first drawn: stream records, per position
\* since the last seeding, the draw made there, and a draw at a recorded
\* position with the same high returns the recorded value.
Recorded(high) ==
    /\ gen.pos < Len(gen.stream)
    /\ gen.stream[gen.pos + 1].high = high

RandintValuesUnseeded(high) == 0..(high - 1)

RandintValues(high) ==
    IF Recorded(high) THEN {gen.stream[gen.pos + 1].value} ELSE 0..(high - 1)

GenAfter(high, value) ==
    [pos |-> gen.pos + 1,
     stream |-> IF Recorded(high) THEN gen.stream
                ELSE Append(SubSeq(gen.stream, 1, gen.pos),
                            [high |-> high, value |-> value])]

Raised(c, kind, high) ==
    [c EXCEPT !.pc = "error", !.err = "ValueError",
              !.failed = Some([kind |-> kind, high |-> high])]

Drawn(c, kind, high, value) ==
    [c EXCEPT !.draws = Append(@, [kind |-> kind, high |-> high, value |-> value])]

\* ---------------------------------------------- lines 222-228: the lengths

ClampedSamplingLengthNoClamp(sampling_length, length) == sampling_length

ClampedSamplingLength(sampling_length, length) ==
    IF sampling_length > length THEN length ELSE sampling_length

PaddingLength(sampling_length, length) ==
    IF sampling_length > length THEN sampling_length - length ELSE 0

\* ------------------------------------------------------ yukarin_sa steps

\* Lines 150-228.
Assemble(w) ==
    /\ call[w].pc = "start"
    /\ cfg.dataset = "sa"
    /\ LET a == Assembled(inputs[call[w].i + 1], cfg.f0_process_mode)
           length == Len(a.phoneme_list_data)
       IN  call' = [call EXCEPT ![w] =
                IF a.err # ""
                THEN [@ EXCEPT !.pc = "error", !.err = a.err, !.full = Some(a)]
                ELSE [@ EXCEPT
                        !.pc = "offset",
                        !.full = Some(a),
                        !.length = length,
                        !.sampling_length =
                            ClampedSamplingLength(cfg.sampling_length, length),
                        !.padding_length =
                            PaddingLength(cfg.sampling_length, length),
                        !.phoneme_list = a.phoneme_list,
                        !.consonant_phoneme_list = a.consonant_phoneme_list,
                        !.start_accent_list = a.start_accent_list,
                        !.end_accent_list = a.end_accent_list,
                        !.start_accent_phrase_list = a.start_accent_phrase_list,
                        !.end_accent_phrase_list = a.end_accent_phrase_list,
                        !.f0 = a.f0,
                        !.voiced = a.voiced]]
    /\ UNCHANGED <<inputs, cfg, gen, hist, indexVars>>

\* Lines 230-241 with the offset drawn.
Windowed(c, offset) ==
    LET lo == offset
        hi == offset + c.sampling_length
    IN  [c EXCEPT
            !.pc = "pad",
            !.offset = offset,
            !.phoneme_list = PySlice(@, lo, hi),
            !.start_accent_list = PySlice(@, lo, hi),
            !.end_accent_list = PySlice(@, lo, hi),
            !.start_accent_phrase_list = PySlice(@, lo, hi),
            !.end_accent_phrase_list = PySlice(@, lo, hi),
            !.f0 = PySlice(@, lo, hi),
            !.voiced = PySlice(@, lo, hi),
            !.padded = [k \in 1..Len(PySlice(c.phoneme_list, lo, hi)) |-> FALSE],
            !.consonant_phoneme_list =
                IF @ # None THEN Some(PySlice(@[1], lo, hi)) ELSE None]

DrawOffset(w) ==
    /\ call[w].pc = "offset"
    /\ LET c == call[w]
           high == c.length - c.sampling_length + 1
       IN  IF RandintRaises(high)
           THEN /\ call' = [call EXCEPT ![w] = Raised(c, "offset", high)]
                /\ UNCHANGED gen
           ELSE \E offset \in RandintValues(high) :
                  /\ gen' = GenAfter(high, offset)
                  /\ call' = [call EXCEPT ![w] =
                        Drawn(Windowed(c, offset), "offset", high, offset)]
    /\ UNCHANGED <<inputs, cfg, hist, indexVars>>

PadPaddedWithZeros(padded, pad_pre, pad_post) ==
    NumpyPad(padded, pad_pre, pad_post, FALSE)

\* padded = numpy.pad(padded, pad_list, constant_values=True)
PadPadded(padded, pad_pre, pad_post) ==
    NumpyPad(padded, pad_pre, pad_post, TRUE)

\* Lines 245-257 with pad_pre drawn.
Padded(c, pad_pre) ==
    LET pad_post == c.padding_length - pad_pre
    IN  [c EXCEPT
            !.pad_pre = pad_pre,
            !.pad_post = pad_post,
            !.phoneme_list = NumpyPad(@, pad_pre, pad_post, 0),
            !.start_accent_list = NumpyPad(@, pad_pre, pad_post, FALSE),
            !.end_accent_list = NumpyPad(@, pad_pre, pad_post, FALSE),
            !.start_accent_phrase_list = NumpyPad(@, pad_pre, pad_post, FALSE),
            !.end_accent_phrase_list = NumpyPad(@, pad_pre, pad_post, FALSE),
            !.f0 = NumpyPad(@, pad_pre, pad_post, FZero),
            !.voiced = NumpyPad(@, pad_pre, pad_post, FALSE),
            !.padded = PadPadded(@, pad_pre, pad_post),
            !.consonant_phoneme_list =
                IF @ # None THEN Some(NumpyPad(@[1], pad_pre, pad_post, 0)) ELSE None]

\* Lines 243-257.
DrawPad(w) ==
    /\ call[w].pc = "pad"
    /\ LET c == call[w]
           high == c.padding_length + 1
       IN  IF c.padding_length > 0
           THEN IF RandintRaises(high)
                THEN /\ call' = [call EXCEPT ![w] = Raised(c, "pad_pre", high)]
                     /\ UNCHANGED gen
                ELSE \E pad_pre \in RandintValues(high) :
                       /\ gen' = GenAfter(high, pad_pre)
                       /\ call' = [call EXCEPT ![w] =
                            [Drawn(Padded(c, pad_pre), "pad_pre", high, pad_pre)
                                EXCEPT !.pc = "phoneme_mask"]]
           ELSE /\ call' = [call EXCEPT ![w].pc = "phoneme_mask"]
                /\ UNCHANGED gen
    /\ UNCHANGED <<inputs, cfg, hist, indexVars>>

MaskEnabledByNum(max_length, num) == num > 0

\* Lines 259 and 267: the guard of a masking pass.
MaskEnabled(max_length, num) == max_length > 0 /\ num > 0

\* Lines 259-261: the guard, the loop test and the draw of mask_length.
PhonemeMaskLength(w) ==
    /\ call[w].pc = "phoneme_mask"
    /\ LET c == call[w]
           high == cfg.phoneme_mask_max_length
       IN  IF /\ MaskEnabled(cfg.phoneme_mask_max_length, cfg.phoneme_mask_num)
              /\ c.n < cfg.phoneme_mask_num
           THEN IF RandintRaises(high)
                THEN /\ call' = [call EXCEPT ![w] = Raised(c, "mask_length", high)]
                     /\ UNCHANGED gen
                ELSE \E mask_length \in RandintValues(high) :
                       /\ gen' = GenAfter(high, mask_length)
                       /\ call' = [call EXCEPT ![w] =
                            [Drawn(c, "mask_length", high, mask_length)
                                EXCEPT !.pc = "phoneme_mask_offset",
                                       !.mask_length = mask_length]]
           ELSE /\ call' = [call EXCEPT ![w].pc = "accent_mask", ![w].n = 0]
                /\ UNCHANGED gen
    /\ UNCHANGED <<inputs, cfg, hist, indexVars>>

PhonemeMaskAppliedIdsOnly(c, mask_offset) ==
    [c EXCEPT !.phoneme_list =
                SliceAssign(@, mask_offset, mask_offset + c.mask_length, -1)]

\* Lines 263-265: the span written with -1.
PhonemeMaskApplied(c, mask_offset) ==
    [c EXCEPT
        !.phoneme_list =
            SliceAssign(@, mask_offset, mask_offset + c.mask_length, -1),
        !.consonant_phoneme_list =
            IF @ # None
            THEN Some(SliceAssign(@[1], mask_offset,
                                  mask_offset + c.mask_length, -1))
            ELSE None]

\* Lines 262-265.
PhonemeMaskOffset(w) ==
    /\ call[w].pc = "phoneme_mask_offset"
    /\ LET c == call[w]
           high == Len(c.phoneme_list) - c.mask_length + 1
       IN  IF RandintRaises(high)
           THEN /\ call' = [call EXCEPT ![w] = Raised(c, "mask_offset", high)]
                /\ UNCHANGED gen
           ELSE \E mask_offset \in RandintValues(high) :
                  /\ gen' = GenAfter(high, mask_offset)
                  /\ call' = [call EXCEPT ![w] =
                        [Drawn(PhonemeMaskApplied(c, mask_offset),
                               "mask_offset", high, mask_offset) EXCEPT
                            !.pc = "phoneme_mask",
                            !.n = @ + 1]]
    /\ UNCHANGED <<inputs, cfg, hist, indexVars>>

\* Lines 267-269.
AccentMaskLength(w) ==
    /\ call[w].pc = "accent_mask"
    /\ LET c == call[w]
           high == cfg.accent_mask_max_length
       IN  IF /\ MaskEnabled(cfg.accent_mask_max_length, cfg.accent_mask_num)
              /\ c.n < cfg.accent_mask_num
           THEN IF RandintRaises(high)
                THEN /\ call' = [call EXCEPT ![w] = Raised(c, "mask_length", high)]
                     /\ UNCHANGED gen
                ELSE \E mask_length \in RandintValues(high) :
                       /\ gen' = GenAfter(high, mask_length)
                       /\ call' = [call EXCEPT ![w] =
                            [Drawn(c, "mask_length", high, mask_length)
                                EXCEPT !.pc = "accent_mask_offset",
                                       !.mask_length = mask_length]]
           ELSE /\ call' = [call EXCEPT ![w].pc = "return", ![w].n = 0]
                /\ UNCHANGED gen
    /\ UNCHANGED <<inputs, cfg, hist, indexVars>>

AccentMaskAppliedStartOnly(c, mask_offset) ==
    [c EXCEPT !.start_accent_list =
                SliceAssign(@, mask_offset, mask_offset + c.mask_length, FALSE)]

\* Lines 273-276: the span written with 0.
AccentMaskApplied(c, mask_offset) ==
    LET lo == mask_offset
        hi == mask_offset + c.mask_length
    IN  [c EXCEPT
            !.start_accent_list = SliceAssign(@, lo, hi, FALSE),
            !.end_accent_list = SliceAssign(@, lo, hi, FALSE),
            !.start_accent_phrase_list = SliceAssign(@, lo, hi, FALSE),
            !.end_accent_phrase_list = SliceAssign(@, lo, hi, FALSE)]

\* Lines 270-276.  The accent arrays of the call are copies (the index-list
\* selection of lines 156-159 makes new arrays), so the stored Input is left
\* as it was.
AccentMaskOffset(w) ==
    /\ call[w].pc = "accent_mask_offset"
    /\ LET c == call[w]
           high == Len(c.start_accent_list) - c.mask_length + 1
       IN  IF RandintRaises(high)
           THEN /\ call' = [call EXCEPT ![w] = Raised(c, "mask_offset", high)]
                /\ UNCHANGED gen
           ELSE \E mask_offset \in RandintValues(high) :
                  /\ gen' = GenAfter(high, mask_offset)
                  /\ call' = [call EXCEPT ![w] =
                        [Drawn(AccentMaskApplied(c, mask_offset),
                               "mask_offset", high, mask_offset) EXCEPT
                            !.pc = "accent_mask",
                            !.n = @ + 1]]
    /\ UNCHANGED <<inputs, cfg, hist, indexVars>>

\* astype(numpy.int64) of a boolean array.
AsInt(a) == [k \in 1..Len(a) |-> IF a[k] THEN 1 ELSE 0]

\* Lines 278-290.
Return(w) ==
    /\ call[w].pc = "return"
    /\ LET c == call[w]
       IN  call' = [call EXCEPT ![w].pc = "done", ![w].data = Some(
                [phoneme_list |-> c.phoneme_list,
                 start_accent_list |-> AsInt(c.start_accent_list),
                 end_accent_list |-> AsInt(c.end_accent_list),
                 start_accent_phrase_list |-> AsInt(c.start_accent_phrase_list),
                 end_accent_phrase_list |-> AsInt(c.end_accent_phrase_list),
                 f0 |-> c.f0,
                 voiced |-> c.voiced,
                 padded |-> c.padded,
                 consonant_phoneme_list |-> c.consonant_phoneme_list])]
    /\ UNCHANGED <<inputs, cfg, gen, hist, indexVars>>

\* ------------------------------------------------------- yukarin_s steps

\* yukarin_s.dataset.f0_mean
f0_mean_s(f0, rate, split_second_list) ==
    LET as == NumpySplit(f0, SplitIndexes(split_second_list, rate))
    IN  NanToZero([k \in 1..Len(as) |-> BucketMean(as[k])])

\* yukarin_s lines 56-71.
DurWindow(w) ==
    /\ call[w].pc = "start"
    /\ cfg.dataset = "s"
    /\ LET phoneme_list_data == inputs[call[w].i + 1].phoneme_list
           length == Len(phoneme_list_data)
           sampling_length == ClampedSamplingLength(cfg.sampling_length, length)
           high == length - sampling_length + 1
           c == [call[w] EXCEPT
                    !.length = length,
                    !.sampling_length = sampling_length,
                    !.padding_length = PaddingLength(cfg.sampling_length, length)]
       IN  IF RandintRaises(high)
           THEN /\ call' = [call EXCEPT ![w] = Raised(c, "offset", high)]
                /\ UNCHANGED gen
           ELSE \E offset \in RandintValues(high) :
                  /\ gen' = GenAfter(high, offset)
                  /\ call' = [call EXCEPT ![w] =
                        [Drawn(c, "offset", high, offset) EXCEPT
                            !.pc = "s_pad",
                            !.offset = offset,
                            !.phoneme_list =
                                PySlice([k \in 1..length |->
                                            phoneme_id(phoneme_list_data[k].phoneme)],
                                        offset, offset + sampling_length),
                            !.phoneme_length =
                                PySlice([k \in 1..length |->
                                            phoneme_list_data[k].end
                                                - phoneme_list_data[k].start],
                                        offset, offset + sampling_length),
                            !.padded =
                                [k \in 1..Len(PySlice(phoneme_list_data, offset,
                                                      offset + sampling_length))
                                    |-> FALSE]]]
    /\ UNCHANGED <<inputs, cfg, hist, indexVars>>

\* yukarin_s lines 73-79.
DurPad(w) ==
    /\ call[w].pc = "s_pad"
    /\ LET c == call[w]
           high == c.padding_length + 1
       IN  IF c.padding_length > 0
           THEN IF RandintRaises(high)
                THEN /\ call' = [call EXCEPT ![w] = Raised(c, "pad_pre", high)]
                     /\ UNCHANGED gen
                ELSE \E pad_pre \in RandintValues(high) :
                       LET pad_post == c.padding_length - pad_pre
                       IN  /\ gen' = GenAfter(high, pad_pre)
                           /\ call' = [call EXCEPT ![w] =
                                [Drawn(c, "pad_pre", high, pad_pre) EXCEPT
                                    !.pc = "s_return",
                                    !.pad_pre = pad_pre,
                                    !.pad_post = pad_post,
                                    !.phoneme_list = NumpyPad(@, pad_pre, pad_post, 0),
                                    !.phoneme_length = NumpyPad(@, pad_pre, pad_post, 0),
                                    !.padded = PadPadded(@, pad_pre, pad_post)]]
           ELSE /\ call' = [call EXCEPT ![w].pc = "s_return"]
                /\ UNCHANGED gen
    /\ UNCHANGED <<inputs, cfg, hist, indexVars>>

\* yukarin_s lines 81-99.
DurReturn(w) ==
    /\ call[w].pc = "s_return"
    /\ LET c == call[w]
           input == inputs[c.i + 1]
           f0 ==
               IF input.f0 = None THEN None
               ELSE LET all == f0_mean_s(
                                input.f0[1].array, input.f0[1].rate,
                                [k \in 1..(Len(input.phoneme_list) - 1) |->
                                    input.phoneme_list[k].end])
                        cut == PySlice(all, c.offset, c.offset + c.sampling_length)
                    IN  Some(IF c.padding_length > 0
                             THEN NumpyPad(cut, c.pad_pre, c.pad_post, FZero)
                             ELSE cut)
       IN  call' = [call EXCEPT ![w].pc = "done", ![w].data = Some(
                [phoneme_list |-> c.phoneme_list,
                 phoneme_length |-> c.phoneme_length,
                 padded |-> c.padded,
                 f0 |-> f0])]
    /\ UNCHANGED <<inputs, cfg, gen, hist, indexVars>>

\* ------------------------------------------------- one call of extract_input

ConfigSa(sampling_length, mode, m) ==
    [dataset |-> "sa", sampling_length |-> sampling_length,
     f0_process_mode |-> mode,
     phoneme_mask_max_length |-> m[1], phoneme_mask_num |-> m[2],
     accent_mask_max_length |-> m[3], accent_mask_num |-> m[4]]

ConfigS(sampling_length) ==
    [dataset |-> "s", sampling_length |-> sampling_length]

Init ==
    /\ \E symbols \in SeqsUpTo(Alphabet, MaxLen) \ {<< >>} :
         \E profile \in Profiles :
           \/ /\ inputs = <<Input(symbols, profile)>>
              /\ cfg \in {ConfigSa(s, mode, m) :
                            s \in SamplingLengths, mode \in F0ProcessMode,
                            m \in MaskConfigs}
                         \cup {ConfigSa(MaxLen, "mora", m) :
                                  m \in RepeatedMaskConfigs}
           \/ /\ inputs = <<InputS(symbols, profile)>>
              /\ cfg \in {ConfigS(s) : s \in SamplingLengths}
    /\ call = [w \in {1} |-> CallInit]
    /\ gen = GenInit
    /\ hist = << >>
    /\ NoIndex

Next ==
    \/ \E w \in DOMAIN call : Assemble(w)
    \/ \E w \in DOMAIN call : DrawOffset(w)
    \/ \E w \in DOMAIN call : DrawPad(w)
    \/ \E w \in DOMAIN call : PhonemeMaskLength(w)
    \/ \E w \in DOMAIN call : PhonemeMaskOffset(w)
    \/ \E w \in DOMAIN call : AccentMaskLength(w)
    \/ \E w \in DOMAIN call : AccentMaskOffset(w)
    \/ \E w \in DOMAIN call : Return(w)
    \/ \E w \in DOMAIN call : DurWindow(w)
    \/ \E w \in DOMAIN call : DurPad(w)
    \/ \E w \in DOMAIN call : DurReturn(w)

Spec == Init /\ [][Next]_vars

\* ------------------------------------------------------------ the claims

\* The calls that have returned an example.
Returned == {w \in DOMAIN call : call[w].pc = "done"}

\* L: the number of units (phonemes or morae) of the utterance of call w.
Units(w) ==
    LET phoneme_list == inputs[call[w].i + 1].phoneme_list
    IN  IF cfg.dataset = "sa" /\ cfg.f0_process_mode # "phoneme"
        THEN Cardinality({k \in 1..Len(phoneme_list) :
                            phoneme_list[k].phoneme \in mora_phoneme_list})
        ELSE Len(phoneme_list)

\* The lengths of the channel arrays of a returned example.
ChannelLengths(data) ==
    IF cfg.dataset = "sa"
    THEN {Len(data.phoneme_list), Len(data.start_accent_list),
          Len(data.end_accent_list), Len(data.start_accent_phrase_list),
          Len(data.end_accent_phrase_list), Len(data.f0), Len(data.voiced),
          Len(data.padded)}
         \cup (IF data.consonant_phoneme_list # None
               THEN {Len(data.consonant_phoneme_list[1])} ELSE {})
    ELSE {Len(data.phoneme_list), Len(data.phoneme_length), Len(data.padded)}
         \cup (IF data.f0 # None THEN {Len(data.f0[1])} ELSE {})

\* C1: every channel array of a returned example has length exactly
\* sampling_length, in every aggregation mode and in the duration dataset.
C1_ChannelLengths ==
    \A w \in Returned :
        ChannelLengths(call[w].data[1]) = {cfg.sampling_length}

\* C2: in a returned example the padded channel is false exactly on
\* [pad_pre, pad_pre + min(L, S)) with 0 <= pad_pre <= max(S - L, 0), so
\* exactly max(S - L, 0) positions are flagged as padding.
C2_PaddedRange ==
    \A w \in Returned :
        LET S == cfg.sampling_length
            L == Units(w)
            pad_pre == call[w].pad_pre
            padded == call[w].data[1].padded
        IN  /\ 0 <= pad_pre /\ pad_pre <= Max(S - L, 0)
            /\ Len(padded) = S
            /\ \A k \in 1..S :
                 padded[k] = ~(k > pad_pre /\ k <= pad_pre + Min(L, S))
            /\ Cardinality({k \in 1..S : padded[k]}) = Max(S - L, 0)

\* A returned example with padding at both ends.
C2_Witness ==
    \E w \in Returned :
        /\ call[w].pad_pre > 0
        /\ call[w].pad_post > 0
        /\ call[w].data[1].padded[1]
        /\ ~call[w].data[1].padded[call[w].pad_pre + 1]

\* C3: in a returned example of the pitch dataset every position whose
\* voiced flag is false, padding included, has pitch exactly 0.
C3_UnvoicedPitchZero ==
    cfg.dataset = "sa" =>
        \A w \in Returned :
            LET data == call[w].data[1]
            IN  \A k \in 1..Len(data.voiced) :
                    ~data.voiced[k] => data.f0[k] = FZero

\* A returned example holding an unvoiced unit for which the aggregator
\* computed a pitch other than 0, beside a padding position.
C3_Witness ==
    /\ cfg.dataset = "sa"
    /\ \E w \in Returned :
         LET c == call[w]
         IN  /\ c.pad_pre > 0
             /\ \E j \in 1..c.sampling_length :
                  /\ ~c.full[1].voiced[c.offset + j]
                  /\ c.full[1].new_f0[c.offset + j] # FZero
                  /\ ~c.data[1].voiced[c.pad_pre + j]

\* C7: in voiced_mora mode the pitch of a mora before voiced-masking is the
\* duration-weighted average over its consonant and its vowel when
\* split_mora gives it a consonant of the voiced vocabulary, and the
\* per-phoneme pitch at the vowel's position for every other mora.
C7_VoicedMoraPitch ==
    (cfg.dataset = "sa" /\ cfg.f0_process_mode = "voiced_mora") =>
        \A w \in DOMAIN call :
            call[w].full # None =>
                LET a == call[w].full[1]
                    sm == split_mora(inputs[call[w].i + 1].phoneme_list)
                IN  \A k \in 1..Len(sm.vowel_indexes) :
                        LET consonant == sm.consonant_phoneme_list[k]
                            vowel == sm.vowel_phoneme_list[k]
                            f0_vowel == a.f0_phoneme[sm.vowel_indexes[k] + 1]
                        IN  a.new_f0[k] =
                              IF /\ consonant # None
                                 /\ consonant[1].phoneme \in voiced_phoneme_list
                              THEN LET f0_consonant ==
                                           a.f0_phoneme[sm.vowel_indexes[k]]
                                       dur_consonant ==
                                           consonant[1].end - consonant[1].start
                                       dur_vowel == vowel.end - vowel.start
                                   IN  FDivInt(
                                         FAdd(FMulInt(f0_consonant, dur_consonant),
                                              FMulInt(f0_vowel, dur_vowel)),
                                         dur_consonant + dur_vowel)
                              ELSE f0_vowel

DrawKinds(c) == {c.draws[k].kind : k \in 1..Len(c.draws)}

\* C8: every draw made is taken from a non-empty range [0, upper] with
\* upper >= 0; the window offset, pad_pre and the mask lengths always have
\* such a range, and a mask offset whose upper bound would be negative is
\* not drawn: the call ends in a ValueError.
C8_DrawRanges ==
    \A w \in DOMAIN call :
        LET c == call[w]
        IN  /\ \A k \in 1..Len(c.draws) :
                 /\ c.draws[k].high - 1 >= 0
                 /\ c.draws[k].value \in 0..(c.draws[k].high - 1)
            /\ (c.failed # None =>
                    /\ c.failed[1].kind = "mask_offset"
                    /\ c.failed[1].high - 1 < 0
                    /\ c.pc = "error"
                    /\ c.err = "ValueError"
                    /\ c.data = None)

\* A call that drew an offset, a pad_pre and a mask length, and then failed
\* on a mask offset with no valid range.
C8_Witness ==
    \E w \in DOMAIN call :
        /\ call[w].failed # None
        /\ DrawKinds(call[w]) = {"offset", "pad_pre", "mask_length"}

\* The positions of a call after the window and the padding are done.
PastWindow ==
    {"phoneme_mask", "phoneme_mask_offset", "accent_mask", "accent_mask_offset",
     "return", "done"}

\* The arrays the window sampler (lines 222-257) left to the masking passes,
\* recomputed from the full-length arrays and the offset and pad_pre drawn.
WindowSamplerResult(c) ==
    LET a == c.full[1]
        pre == [c EXCEPT
                  !.phoneme_list = a.phoneme_list,
                  !.consonant_phoneme_list = a.consonant_phoneme_list,
                  !.start_accent_list = a.start_accent_list,
                  !.end_accent_list = a.end_accent_list,
                  !.start_accent_phrase_list = a.start_accent_phrase_list,
                  !.end_accent_phrase_list = a.end_accent_phrase_list,
                  !.f0 = a.f0,
                  !.voiced = a.voiced]
        cut == Windowed(pre, c.offset)
    IN  IF c.padding_length > 0 THEN Padded(cut, c.pad_pre) ELSE cut

PhonemeChannels(c) == <<c.phoneme_list, c.consonant_phoneme_list>>

AccentChannels(c) ==
    <<c.start_accent_list, c.end_accent_list,
      c.start_accent_phrase_list, c.end_accent_phrase_list>>

OtherChannels(c) == <<c.f0, c.voiced, c.padded>>

DrawCount(c, kind) == Cardinality({k \in 1..Len(c.draws) : c.draws[k].kind = kind})

PhonemePassOff == ~(cfg.phoneme_mask_max_length > 0 /\ cfg.phoneme_mask_num > 0)

AccentPassOff == ~(cfg.accent_mask_max_length > 0 /\ cfg.accent_mask_num > 0)

\* C11: a masking pass whose maximum span length or repeat count is 0 leaves
\* its channels as the window sampler made them and draws nothing; with both
\* passes off the call draws only the offset and pad_pre, does not fail, and
\* returns the window sampler's result in every channel.
C11_DisabledPassIsNoOp ==
    cfg.dataset = "sa" =>
        \A w \in DOMAIN call :
            LET c == call[w]
                maskDraws == DrawCount(c, "mask_length") + DrawCount(c, "mask_offset")
            IN  /\ (PhonemePassOff /\ c.pc \in PastWindow) =>
                        /\ PhonemeChannels(c) = PhonemeChannels(WindowSamplerResult(c))
                        /\ maskDraws <= 2 * cfg.accent_mask_num
                /\ (AccentPassOff /\ c.pc \in PastWindow) =>
                        /\ AccentChannels(c) = AccentChannels(WindowSamplerResult(c))
                        /\ maskDraws <= 2 * cfg.phoneme_mask_num
                /\ (PhonemePassOff /\ AccentPassOff) =>
                        /\ maskDraws = 0
                        /\ c.failed = None
                        /\ c.pc = "done" =>
                              LET r == WindowSamplerResult(c)
                              IN  c.data[1] =
                                    [phoneme_list |-> r.phoneme_list,
                                     start_accent_list |-> AsInt(r.start_accent_list),
                                     end_accent_list |-> AsInt(r.end_accent_list),
                                     start_accent_phrase_list |->
                                        AsInt(r.start_accent_phrase_list),
                                     end_accent_phrase_list |->
                                        AsInt(r.end_accent_phrase_list),
                                     f0 |-> r.f0,
                                     voiced |-> r.voiced,
                                     padded |-> r.padded,
                                     consonant_phoneme_list |->
                                        r.consonant_phoneme_list]

\* A returned example of a configuration whose passes are both off, one by
\* a maximum length of 0 beside a positive count and one by a count of 0
\* beside a positive maximum length, with padding drawn.
C11_Witness ==
    /\ cfg.dataset = "sa"
    /\ cfg.phoneme_mask_max_length = 0 /\ cfg.phoneme_mask_num > 0
    /\ cfg.accent_mask_max_length > 0 /\ cfg.accent_mask_num = 0
    /\ \E w \in Returned : DrawKinds(call[w]) = {"offset", "pad_pre"}

\* =====================================================================
\* Two runs from one seed, beside another worker's call
\* =====================================================================

\* Call 1 is run twice on the same stored Input, numpy.random seeded with the
\* same seed before each run; hist holds the outcome of each run.  Call 2 is
\* a call of another worker on the same dataset, which may run at any time
\* and draws from the same module-level generator.

Outcome(c) == [pc |-> c.pc, err |-> c.err, data |-> c.data]

\* The utterances and configurations of the seeded runs: a window shorter
\* than the utterance with one accent mask or one phoneme mask, and a window
\* longer than the utterance with no mask.
SeededUtterances == {<<"a", "a">>, <<"k", "a">>}

SeededConfigs ==
    {ConfigSa(1, "mora", <<0, 0, 2, 1>>), ConfigSa(1, "mora", <<2, 1, 0, 0>>),
     ConfigSa(3, "mora", <<0, 0, 0, 0>>)}

SeededInit ==
    /\ \E symbols \in SeededUtterances : inputs = <<Input(symbols, 0)>>
    /\ cfg \in SeededConfigs
    /\ call = [w \in {1, 2} |-> CallInit]
    /\ gen = GenInit
    /\ hist = << >>
    /\ NoIndex

\* The end of a run of call 1: its outcome is kept and, after the first run,
\* the generator is seeded again (numpy.random.seed with the same seed puts
\* it back at the start of the same stream) and the call is made again.
Rerun ==
    /\ call[1].pc \in {"done", "error"}
    /\ Len(hist) < 2
    /\ hist' = Append(hist, Outcome(call[1]))
    /\ IF Len(hist) = 0
       THEN /\ call' = [call EXCEPT ![1] = CallInit]
            /\ gen' = [gen EXCEPT !.pos = 0]
       ELSE UNCHANGED <<call, gen>>
    /\ UNCHANGED <<inputs, cfg, indexVars>>

SeededNext ==
    \/ \E w \in DOMAIN call : Assemble(w)
    \/ \E w \in DOMAIN call : DrawOffset(w)
    \/ \E w \in DOMAIN call : DrawPad(w)
    \/ \E w \in DOMAIN call : PhonemeMaskLength(w)
    \/ \E w \in DOMAIN call : PhonemeMaskOffset(w)
    \/ \E w \in DOMAIN call : AccentMaskLength(w)
    \/ \E w \in DOMAIN call : AccentMaskOffset(w)
    \/ \E w \in DOMAIN call : Return(w)
    \/ Rerun

SpecSeeded == SeededInit /\ [][SeededNext]_vars

\* C9: the draws made by one call cannot change the result of another call:
\* whatever the other worker's call does meanwhile, the two runs of call 1
\* from the same seed end alike.
C9_NoInterference ==
    Len(hist) = 2 => hist[1] = hist[2]

\* C10: two runs of the window and mask steps on the same Input, the
\* generator seeded alike before each and drawn from by no one else, return
\* the same example in every channel.
C10_SameSeedSameExample ==
    (Len(hist) = 2 /\ call[2].draws = << >>) => hist[1] = hist[2]

\* Two finished runs, undisturbed, that each drew a window offset among
\* several and an accent mask that erased one position.
C10_Witness ==
    /\ Len(hist) = 2
    /\ call[2].draws = << >>
    /\ hist[1].pc = "done"
    /\ hist[2].pc = "done"
    /\ DrawKinds(call[1]) = {"offset", "mask_length", "mask_offset"}
    /\ call[1].length > call[1].sampling_length
    /\ call[1].mask_length > 0

\* =====================================================================
\* create_dataset
\* =====================================================================

\* The utterance keys (file-name stems), and their order under sorted().
Keys == {"u1", "u2", "u3"}

KeyOrder == <<"u1", "u2", "u3">>

Seeds == {0, 1}

Range(s) == {s[k] : k \in 1..Len(s)}

Perms(S) ==
    {p \in [1..Cardinality(S) -> S] :
        \A i, j \in 1..Cardinality(S) : p[i] = p[j] => i = j}

KeepDiscoveryOrder(paths) == paths

\* sorted(phoneme_list_paths.keys()): paths is what glob returned, as the
\* stems of the files in the order of their discovery.
SortedKeys(paths) ==
    SelectSeq(KeyOrder, LAMBDA k : k \in Range(paths))

\* The file patterns other than phoneme_list_glob, in the order in which
\* create_dataset evaluates them.
PatternsSa ==
    <<"start_accent_list", "end_accent_list", "start_accent_phrase_list",
      "end_accent_phrase_list", "f0", "volume">>

\* yukarin_sa lines 347-372, yukarin_s lines 147-150: the patterns whose
\* key set differs from the phoneme-list key set (each is asserted equal).
FailedPatterns(fn_list) ==
    IF config.dataset = "sa"
    THEN {k \in 1..Len(PatternsSa) :
            world.files[PatternsSa[k]] # Range(fn_list)}
    ELSE IF config.f0_glob # None /\ world.files["f0"] # Range(fn_list)
         THEN {1} ELSE {}

\* Lines 376-386: fn_each_speaker is the speaker file as a list of
\* <<speaker, fns>> in the order of declaration; a key listed more than
\* once keeps the id of the last speaker listing it.
Listed(fn_each_speaker) ==
    UNION {Range(fn_each_speaker[s].fns) : s \in 1..Len(fn_each_speaker)}

SpeakerIds(fn_each_speaker) ==
    [fn \in Listed(fn_each_speaker) |->
        (CHOOSE s \in 1..Len(fn_each_speaker) :
            /\ fn \in Range(fn_each_speaker[s].fns)
            /\ \A s2 \in (s + 1)..Len(fn_each_speaker) :
                 fn \notin Range(fn_each_speaker[s2].fns)) - 1]

\* numpy.random.RandomState(seed).shuffle(fn_list): the permutation a seed
\* gives for a list of that length is fixed; world.shuffle holds it.
Shuffled(fn_list, seed) ==
    [k \in 1..Len(fn_list) |-> fn_list[world.shuffle[seed][k]]]

TestMasksFromConfig(masks) == masks

\* Lines 417-427: the mask settings of the test dataset.
TestMasks(masks) == <<0, 0, 0, 0>>

SpeakerIdListSorted(fns, speaker_ids) ==
    LET sorted == SelectSeq(KeyOrder, LAMBDA k : k \in Range(fns))
    IN  [k \in 1..Len(fns) |-> speaker_ids[sorted[k]]]

\* Line 432: [speaker_ids[fn] for fn in fns]
SpeakerIdList(fns, speaker_ids) ==
    [k \in 1..Len(fns) |-> speaker_ids[fns[k]]]

\* _dataset(fns, for_test): the list of descriptors (by key), the settings
\* of the FeatureDataset, the speaker ids of SpeakerFeatureDataset and the
\* number of copies ConcatDataset joins.
DatasetOf(fns, for_test, speaker_ids) ==
    [fns |-> fns,
     for_test |-> for_test,
     masks |-> IF config.dataset # "sa" THEN <<0, 0, 0, 0>>
               ELSE IF for_test THEN TestMasks(config.masks)
               ELSE config.masks,
     speaker_ids |-> IF speaker_ids = None THEN None
                     ELSE Some(SpeakerIdList(fns, speaker_ids[1])),
     copies |-> IF for_test THEN config.test_trial_num ELSE 1]

Failure(kind) == [err |-> kind]

\* create_dataset(config), the glob of phoneme_list_glob having returned
\* paths.
create_dataset(paths) ==
    LET fn_list == SortedKeys(paths)
        fn_each_speaker == world.speaker_file
        speaker_ids ==
            IF config.speaker_dict_path = None THEN None
            ELSE Some(SpeakerIds(fn_each_speaker))
        shuffled == Shuffled(fn_list, config.seed)
        test_num == config.test_num
        trains == PySlice(shuffled, test_num, Len(shuffled))
        tests == PySlice(shuffled, 0, test_num)
    IN  IF Len(fn_list) = 0 THEN Failure("AssertionError")
        ELSE IF FailedPatterns(fn_list) # {} THEN Failure("AssertionError")
        ELSE IF /\ config.speaker_dict_path # None
                /\ config.speaker_size # Len(fn_each_speaker)
        THEN Failure("AssertionError")
        ELSE IF /\ config.speaker_dict_path # None
                /\ ~(Range(fn_list) \subseteq DOMAIN speaker_ids[1])
        THEN Failure("AssertionError")
        ELSE [err |-> "",
              fn_list |-> shuffled,
              train |-> DatasetOf(trains, FALSE, speaker_ids),
              test |-> DatasetOf(tests, TRUE, speaker_ids)]

\* ------------------------------------------------- the runs of create_dataset

MaxRuns == 2

Subsets(S) == SUBSET S

\* The files of an utterance set in which every pattern matches the keys P,
\* but for the pattern named by odd, which matches Q.
Files(P, odd, Q) ==
    [pattern \in {"phoneme_list"} \cup Range(PatternsSa) |->
        IF pattern = odd THEN Q ELSE P]

\* Speaker files over the sorted keys ks: one speaker with every key, two
\* speakers sharing the keys, two speakers of which the second lists
\* nothing, one speaker missing the last key, and two speakers both listing
\* the first key.
SpeakerFiles(ks) ==
    {<<[speaker |-> "s1", fns |-> ks]>>,
     <<[speaker |-> "s1", fns |-> Tail(ks)],
       [speaker |-> "s2", fns |-> <<Head(ks)>>]>>,
     <<[speaker |-> "s1", fns |-> ks], [speaker |-> "s2", fns |-> << >>]>>,
     <<[speaker |-> "s1", fns |-> SubSeq(ks, 1, Len(ks) - 1)]>>,
     <<[speaker |-> "s1", fns |-> ks],
       [speaker |-> "s2", fns |-> <<Head(ks)>>]>>}

ConfigOf(dataset, f0_glob, speaker_dict_path, speaker_size, seed, test_num, test_trial_num, sampling_length, masks) ==
    [dataset |-> dataset, f0_glob |-> f0_glob,
     speaker_dict_path |-> speaker_dict_path, speaker_size |-> speaker_size,
     seed |-> seed, test_num |-> test_num, test_trial_num |-> test_trial_num,
     sampling_length |-> sampling_length, f0_process_mode |-> "mora",
     masks |-> masks]

WorldOf(files, speaker_file, shuffle) ==
    [files |-> files, speaker_file |-> speaker_file, shuffle |-> shuffle]

\* Consistent files, any seed, any shuffle, any test_num within the keys.
IndexInitSplit ==
    \E P \in Subsets(Keys) \ {{}} :
    \E dataset \in {"sa", "s"} :
    \E seed \in Seeds :
    \E test_num \in 0..Cardinality(P) :
    \E shuffle \in [Seeds -> Perms(1..Cardinality(P))] :
        /\ config = ConfigOf(dataset, Some("f0_glob"), None, 0, seed, test_num,
                             1, 1, <<2, 1, 2, 1>>)
        /\ world = WorldOf(Files(P, "", {}), << >>, shuffle)

\* One pattern out of step with the phoneme lists.
IndexInitFiles ==
    \E P \in {{}, {"u1"}, {"u1", "u2"}} :
    \E dataset \in {"sa", "s"} :
    \E f0_glob \in {None, Some("f0_glob")} :
    \E odd \in {"start_accent_list", "end_accent_phrase_list", "f0", "volume"} :
    \E Q \in Subsets(Keys) :
    \E shuffle \in [Seeds -> Perms(1..Cardinality(P))] :
        /\ dataset = "sa" => f0_glob # None
        /\ config = ConfigOf(dataset, f0_glob, None, 0, 0, 1, 1, 1,
                             <<2, 1, 2, 1>>)
        /\ world = WorldOf(Files(P, odd, Q), << >>, shuffle)

\* Consistent files with a speaker file.
IndexInitSpeakers ==
    \E P \in {{"u1", "u2"}, {"u1", "u3"}} :
    \E dataset \in {"sa", "s"} :
    \E speaker_file \in SpeakerFiles(SelectSeq(KeyOrder, LAMBDA k : k \in P)) :
    \E speaker_size \in {1, 2} :
    \E shuffle \in [Seeds -> Perms(1..Cardinality(P))] :
        /\ config = ConfigOf(dataset, Some("f0_glob"), Some("speaker_dict_path"),
                             speaker_size, 0, 1, 1, 1, <<2, 1, 2, 1>>)
        /\ world = WorldOf(Files(P, "", {}), speaker_file, shuffle)

IndexInit ==
    /\ \/ IndexInitSplit
       \/ IndexInitFiles
       \/ IndexInitSpeakers
    /\ datasets = << >>
    /\ inputs = << >>
    /\ cfg = [dataset |-> "create_dataset"]
    /\ call = << >>
    /\ gen = GenInit
    /\ hist = << >>

\* One run of create_dataset, made while no item is being built; glob finds
\* the phoneme-list files in any order.
CreateDataset ==
    /\ Len(datasets) < MaxRuns
    /\ \A w \in DOMAIN call : call[w].pc = "idle"
    /\ \E paths \in Perms(world.files["phoneme_list"]) :
         datasets' = Append(datasets, create_dataset(paths))
    /\ UNCHANGED <<inputs, cfg, call, gen, hist, config, world>>

SpecIndex == IndexInit /\ [][CreateDataset]_vars

\* C13: for keys, seed and test_num with 0 <= test_num <= number of keys,
\* every run of create_dataset that returns gives the same partition,
\* whatever the order of discovery: the test keys are the first test_num
\* keys of the seeded shuffle of the sorted keys and the train keys the
\* rest, the two groups are disjoint and hold every key exactly once.
C13_Partition ==
    \A r \in 1..Len(datasets) :
        datasets[r].err = "" =>
            LET keys == world.files["phoneme_list"]
                n == Cardinality(keys)
                sorted == SelectSeq(KeyOrder, LAMBDA k : k \in keys)
                order == [k \in 1..n |-> sorted[world.shuffle[config.seed][k]]]
                tests == datasets[r].test.fns
                trains == datasets[r].train.fns
            IN  /\ tests = SubSeq(order, 1, config.test_num)
                /\ trains = SubSeq(order, config.test_num + 1, n)
                /\ Len(tests) = config.test_num
                /\ Range(tests) \cap Range(trains) = {}
                /\ Range(tests) \cup Range(trains) = keys
                /\ Len(tests) + Len(trains) = n
                /\ \A r2 \in 1..Len(datasets) :
                     datasets[r2].err = "" =>
                        /\ datasets[r2].test.fns = tests
                        /\ datasets[r2].train.fns = trains

\* Two runs over three keys, of which one goes to the test group, under a
\* shuffle that moves the keys.
C13_Witness ==
    /\ Len(datasets) = 2
    /\ datasets[1].err = "" /\ datasets[2].err = ""
    /\ Cardinality(world.files["phoneme_list"]) = 3
    /\ config.test_num = 1
    /\ datasets[1].fn_list # KeyOrder

\* The patterns the specification of the index builder calls required
\* (beside the phoneme lists) and optional.
RequiredPatterns ==
    IF config.dataset = "sa"
    THEN {"start_accent_list", "end_accent_list", "start_accent_phrase_list",
          "end_accent_phrase_list", "f0"}
    ELSE {}

OptionalPatterns ==
    IF config.dataset = "sa" THEN {"volume"}
    ELSE IF config.f0_glob # None THEN {"f0"} ELSE {}

SpeakerFileRejected ==
    /\ config.speaker_dict_path # None
    /\ \/ config.speaker_size # Len(world.speaker_file)
       \/ ~(world.files["phoneme_list"] \subseteq Listed(world.speaker_file))

\* C14: create_dataset fails whenever a required pattern's key set differs
\* from the phoneme-list key set, the speaker file's number of speakers
\* differs from speaker_size, or a discovered key is in no speaker's list;
\* with none of these, an optional pattern whose key set is a superset of
\* the phoneme-list key set is accepted.
C14_IndexValidation ==
    \A r \in 1..Len(datasets) :
        LET keys == world.files["phoneme_list"]
            rejected ==
                \/ \E pattern \in RequiredPatterns : world.files[pattern] # keys
                \/ SpeakerFileRejected
            optional_fine ==
                \A pattern \in OptionalPatterns : keys \subseteq world.files[pattern]
        IN  /\ rejected => datasets[r].err # ""
            /\ (keys # {} /\ ~rejected /\ optional_fine) => datasets[r].err = ""

\* C15: with no volume file present and everything else in order, building
\* the index succeeds.
C15_NoVolumeNoError ==
    \A r \in 1..Len(datasets) :
        LET keys == world.files["phoneme_list"]
        IN  (/\ config.dataset = "sa"
             /\ keys # {}
             /\ world.files["volume"] = {}
             /\ \A pattern \in RequiredPatterns : world.files[pattern] = keys
             /\ ~SpeakerFileRejected)
            => datasets[r].err = ""

\* =====================================================================
\* Access to the datasets create_dataset returned
\* =====================================================================

MaxAccess == 2

\* The content of the files of an utterance.
UtteranceOf(key) ==
    CASE key = "u1" -> <<"a", "a">>
      [] key = "u2" -> <<"k", "a">>
      [] OTHER -> <<"a">>

\* LazyInput.generate() of the descriptor of key.
Generate(key) ==
    IF config.dataset = "sa" THEN Input(UtteranceOf(key), 1)
    ELSE InputS(UtteranceOf(key), IF config.f0_glob # None THEN 1 ELSE 0)

\* len() of a dataset _dataset returned.
DatasetLen(dataset) == Len(dataset.fns) * dataset.copies

ConcatIndexClamped(i, n) == IF i < n THEN i ELSE n - 1

\* ConcatDataset.__getitem__ over copies of one dataset of length n: the
\* position within the copy that holds item i.
ConcatIndex(i, n) == i % n

\* self of the FeatureDataset inside a dataset _dataset returned.
FeatureDatasetOf(dataset) ==
    IF config.dataset = "sa"
    THEN ConfigSa(config.sampling_length, config.f0_process_mode, dataset.masks)
    ELSE ConfigS(config.sampling_length)

Idle == [CallInit EXCEPT !.pc = "idle"]

\* dataset[i] up to the call of extract_input: ConcatDataset finds the copy,
\* SpeakerFeatureDataset and FeatureDataset.__getitem__ take the
\* descriptor and generate its Input.
GetItem(w) ==
    /\ call[w].pc = "idle"
    /\ Len(hist) < MaxAccess
    /\ Len(datasets) > 0
    /\ datasets[Len(datasets)].err = ""
    /\ \E split \in {"train", "test"} :
         LET dataset == datasets[Len(datasets)][split]
         IN  \E i \in 0..(DatasetLen(dataset) - 1) :
               LET sample == ConcatIndex(i, Len(dataset.fns))
               IN  /\ cfg' = FeatureDatasetOf(dataset)
                   /\ inputs' = [k \in 1..Len(dataset.fns) |-> Generate(dataset.fns[k])]
                   /\ call' = [call EXCEPT ![w] = [CallInit EXCEPT !.i = sample]]
                   /\ hist' = Append(hist,
                        [split |-> split, i |-> i, returned |-> FALSE,
                         c |-> Idle, speaker_id |-> None])
    /\ UNCHANGED <<gen, indexVars>>

\* The rest of dataset[i]: SpeakerFeatureDataset.__getitem__ adds the
\* speaker id to what extract_input returned, and the item is handed over.
Deliver(w) ==
    /\ call[w].pc \in {"done", "error"}
    /\ Len(hist) > 0
    /\ ~hist[Len(hist)].returned
    /\ LET access == hist[Len(hist)]
           dataset == datasets[Len(datasets)][access.split]
       IN  hist' = [hist EXCEPT ![Len(hist)] =
                [@ EXCEPT !.returned = TRUE,
                          !.c = call[w],
                          !.speaker_id =
                             IF call[w].pc = "done" /\ dataset.speaker_ids # None
                             THEN Some(dataset.speaker_ids[1][call[w].i + 1])
                             ELSE None]]
    /\ call' = [call EXCEPT ![w] = Idle]
    /\ UNCHANGED <<inputs, cfg, gen, indexVars>>

\* Two utterances, with or without a speaker file of two speakers, the
\* test group joined twice.
DatasetInit ==
    /\ \E dataset \in {"sa", "s"} :
       \E masks \in {<<2, 1, 0, 0>>, <<0, 0, 2, 1>>} :
       \E sampling_length \in {1, 2} :
       \E test_num \in {1, 2} :
       \E test_trial_num \in {2} :
       \E speakers \in {0, 2} :
       \E shuffle \in [Seeds -> Perms(1..2)] :
           /\ dataset = "s" => masks = <<0, 0, 2, 1>>
           /\ shuffle[1] = <<1, 2>>
           /\ config = ConfigOf(dataset, Some("f0_glob"),
                                IF speakers = 0 THEN None
                                ELSE Some("speaker_dict_path"),
                                speakers, 0, test_num, test_trial_num,
                                sampling_length, masks)
           /\ world = WorldOf(
                Files({"u1", "u2"}, "", {}),
                IF speakers = 0 THEN << >>
                ELSE <<[speaker |-> "s1", fns |-> <<"u2">>],
                       [speaker |-> "s2", fns |-> <<"u1">>]>>,
                shuffle)
    /\ datasets = << >>
    /\ inputs = << >>
    /\ cfg = [dataset |-> "create_dataset"]
    /\ call = [w \in {1} |-> Idle]
    /\ gen = GenInit
    /\ hist = << >>

DatasetNext ==
    \/ CreateDataset
    \/ \E w \in DOMAIN call : GetItem(w)
    \/ \E w \in DOMAIN call : Assemble(w)
    \/ \E w \in DOMAIN call : DrawOffset(w)
    \/ \E w \in DOMAIN call : DrawPad(w)
    \/ \E w \in DOMAIN call : PhonemeMaskLength(w)
    \/ \E w \in DOMAIN call : PhonemeMaskOffset(w)
    \/ \E w \in DOMAIN call : AccentMaskLength(w)
    \/ \E w \in DOMAIN call : AccentMaskOffset(w)
    \/ \E w \in DOMAIN call : Return(w)
    \/ \E w \in DOMAIN call : DurWindow(w)
    \/ \E w \in DOMAIN call : DurPad(w)
    \/ \E w \in DOMAIN call : DurReturn(w)
    \/ \E w \in DOMAIN call : Deliver(w)

SpecDataset == DatasetInit /\ [][DatasetNext]_vars

\* The accesses that have been answered with an example.
Answered(split) ==
    {k \in 1..Len(hist) :
        /\ hist[k].returned
        /\ hist[k].split = split
        /\ hist[k].c.pc = "done"}

\* C12: whatever masks are configured, an example of the test dataset has no
\* phoneme id or consonant id overwritten by the mask sentinel and no accent
\* marker erased: its channels are those the window sampler made, and no
\* mask was drawn for it.
C12_TestNotMasked ==
    config.dataset = "sa" =>
        \A k \in Answered("test") :
            LET c == hist[k].c
                r == WindowSamplerResult(c)
                data == c.data[1]
            IN  /\ data.phoneme_list = r.phoneme_list
                /\ data.consonant_phoneme_list = r.consonant_phoneme_list
                /\ data.start_accent_list = AsInt(r.start_accent_list)
                /\ data.end_accent_list = AsInt(r.end_accent_list)
                /\ data.start_accent_phrase_list = AsInt(r.start_accent_phrase_list)
                /\ data.end_accent_phrase_list = AsInt(r.end_accent_phrase_list)
                /\ DrawCount(c, "mask_length") = 0
                /\ DrawCount(c, "mask_offset") = 0

\* A train example on which a mask of length 1 was drawn, followed by a test
\* example of the same datasets.
C12_Witness ==
    /\ config.dataset = "sa"
    /\ \E j \in Answered("train") :
         /\ hist[j].c.mask_length = 1
         /\ DrawCount(hist[j].c, "mask_offset") = 1
         /\ \E k \in Answered("test") : k > j

\* The datasets in use: those of the last run of create_dataset.
Current == datasets[Len(datasets)]

\* The example of call c was built from the files of key.
BuiltFrom(c, key) ==
    IF config.dataset = "sa"
    THEN c.full = Some(Assembled(Generate(key), config.f0_process_mode))
    ELSE LET ids == [k \in 1..Len(UtteranceOf(key)) |->
                        phoneme_id(UtteranceOf(key)[k])]
         IN  /\ c.length = Len(ids)
             /\ \A j \in 1..c.sampling_length :
                  c.data[1].phoneme_list[c.pad_pre + j] = ids[c.offset + j]

\* Every discovered key is in the list of exactly one speaker, once.
ListedOnce ==
    \A key \in world.files["phoneme_list"] :
        Cardinality({<<s, j>> \in (1..Len(world.speaker_file)) \X (1..Cardinality(Keys)) :
                        /\ j <= Len(world.speaker_file[s].fns)
                        /\ world.speaker_file[s].fns[j] = key}) = 1

\* C16: with a speaker file listing each key under exactly one speaker,
\* every example of the train and of the test dataset carries the 0-based
\* position, in the speaker file, of the speaker listing the key the example
\* was built from.
C16_SpeakerOfOwnKey ==
    (config.speaker_dict_path # None /\ ListedOnce) =>
        \A split \in {"train", "test"} :
            \A k \in Answered(split) :
                LET c == hist[k].c
                    key == Current[split].fns[c.i + 1]
                    s == CHOOSE s \in 1..Len(world.speaker_file) :
                            key \in Range(world.speaker_file[s].fns)
                IN  /\ BuiltFrom(c, key)
                    /\ hist[k].speaker_id = Some(s - 1)

\* Examples of both datasets, under a shuffle that moves the keys, one of
\* them of the second speaker and one of the first.
C16_Witness ==
    /\ config.speaker_dict_path # None
    /\ Len(datasets) > 0
    /\ Current.err = ""
    /\ Current.fn_list # SubSeq(KeyOrder, 1, Len(Current.fn_list))
    /\ \E j \in Answered("train") : hist[j].speaker_id = Some(1)
    /\ \E k \in Answered("test") : hist[k].speaker_id = Some(0)

DrawsOf(k) == Len(hist[k].c.draws)

\* C17: the test dataset has test_num * test_trial_num items; item i is
\* built from test key number i mod test_num; every access draws its own
\* window offset, and its own pad_pre when it pads, from the generator:
\* every draw of every access has advanced the generator and none was
\* answered from an earlier access.
C17_TestTrials ==
    /\ \A r \in 1..Len(datasets) :
         datasets[r].err = "" =>
            DatasetLen(datasets[r].test) = config.test_num * config.test_trial_num
    /\ \A k \in 1..Len(hist) :
         (hist[k].returned /\ hist[k].split = "test") =>
            LET c == hist[k].c
                number == hist[k].i % config.test_num
            IN  /\ c.i = number
                /\ c.pc = "done" => BuiltFrom(c, Current.test.fns[number + 1])
                /\ DrawCount(c, "offset") = 1
                /\ DrawCount(c, "pad_pre") = (IF c.padding_length > 0 THEN 1 ELSE 0)
    /\ gen.pos = SumSeq([k \in 1..Len(hist) |-> DrawsOf(k)])
                 + SumSeq([w \in DOMAIN call |-> Len(call[w].draws)])
    /\ Len(gen.stream) = gen.pos

\* Two accesses to the same item of the second copy of the test dataset
\* that drew different window offsets.
C17_Witness ==
    \E j, k \in Answered("test") :
        /\ j < k
        /\ hist[j].i = hist[k].i
        /\ hist[j].i >= config.test_num
        /\ hist[j].c.offset # hist[k].c.offset

\* =====================================================================
\* The window and the masks, channel by channel
\* =====================================================================

\* out is the window of full that call c took: out[pad_pre + j] is
\* full[offset + j] for every j in [0, min(L, S)), and every other position
\* of out holds zero.
IsWindow(out, full, c, zero) ==
    LET L == c.length
        S == cfg.sampling_length
    IN  /\ \A j \in 0..(Min(L, S) - 1) :
             /\ c.pad_pre + j < Len(out)
             /\ c.offset + j < Len(full)
             /\ out[c.pad_pre + j + 1] = full[c.offset + j + 1]
        /\ \A q \in 0..(Len(out) - 1) :
             (q < c.pad_pre \/ q >= c.pad_pre + Min(L, S)) => out[q + 1] = zero

\* C18: when the window sampler is done and no mask has been applied, there
\* is one offset in [0, max(L - S, 0)] and one pad_pre in [0, max(S - L, 0)]
\* of which every channel is the window of its full-length array, padded
\* with 0 (ids, markers, pitch) or false (voiced).
C18_SameWindowEveryChannel ==
    \A w \in DOMAIN call :
        LET c == call[w]
            L == c.length
            S == cfg.sampling_length
        IN  /\ (cfg.dataset = "sa" /\ c.pc = "phoneme_mask" /\ c.n = 0) =>
                 LET a == c.full[1]
                 IN  /\ c.offset \in 0..Max(L - S, 0)
                     /\ c.pad_pre \in 0..Max(S - L, 0)
                     /\ IsWindow(c.phoneme_list, a.phoneme_list, c, 0)
                     /\ c.consonant_phoneme_list # None =>
                          IsWindow(c.consonant_phoneme_list[1],
                                   a.consonant_phoneme_list[1], c, 0)
                     /\ IsWindow(c.start_accent_list, a.start_accent_list, c, FALSE)
                     /\ IsWindow(c.end_accent_list, a.end_accent_list, c, FALSE)
                     /\ IsWindow(c.start_accent_phrase_list,
                                 a.start_accent_phrase_list, c, FALSE)
                     /\ IsWindow(c.end_accent_phrase_list,
                                 a.end_accent_phrase_list, c, FALSE)
                     /\ IsWindow(c.f0, a.f0, c, FZero)
                     /\ IsWindow(c.voiced, a.voiced, c, FALSE)
            /\ (cfg.dataset = "s" /\ c.pc = "done") =>
                 LET input == inputs[c.i + 1]
                     data == c.data[1]
                 IN  /\ c.offset \in 0..Max(L - S, 0)
                     /\ c.pad_pre \in 0..Max(S - L, 0)
                     /\ IsWindow(data.phoneme_list,
                                 [k \in 1..L |-> phoneme_id(input.phoneme_list[k].phoneme)],
                                 c, 0)
                     /\ IsWindow(data.phoneme_length,
                                 [k \in 1..L |-> input.phoneme_list[k].end
                                                    - input.phoneme_list[k].start],
                                 c, 0)
                     /\ data.f0 # None =>
                          IsWindow(data.f0[1],
                                   f0_mean_s(input.f0[1].array, input.f0[1].rate,
                                             [k \in 1..(L - 1) |->
                                                 input.phoneme_list[k].end]),
                                   c, FZero)

\* The repetitions of masking a call has completed, in order: the length
\* and the offset each one drew.
MaskPairs(c) ==
    LET lengths == SelectSeq(c.draws, LAMBDA x : x.kind = "mask_length")
        offsets == SelectSeq(c.draws, LAMBDA x : x.kind = "mask_offset")
    IN  [k \in 1..Len(offsets) |->
            [length |-> lengths[k].value, offset |-> offsets[k].value]]

\* How many repetitions of each pass a call at a position past the window
\* has completed.
PhonemeRepetitions(c) ==
    IF c.pc \in {"phoneme_mask", "phoneme_mask_offset"} THEN c.n
    ELSE IF PhonemePassOff THEN 0 ELSE cfg.phoneme_mask_num

AccentRepetitions(c) ==
    IF c.pc \in {"phoneme_mask", "phoneme_mask_offset"} THEN 0
    ELSE IF c.pc \in {"accent_mask", "accent_mask_offset"} THEN c.n
    ELSE IF AccentPassOff THEN 0 ELSE cfg.accent_mask_num

PhonemeSpans(c) == SubSeq(MaskPairs(c), 1, PhonemeRepetitions(c))

AccentSpans(c) ==
    SubSeq(MaskPairs(c), PhonemeRepetitions(c) + 1,
           PhonemeRepetitions(c) + AccentRepetitions(c))

\* Position q (counted from 0) lies in one of the spans.
Covered(spans, q) ==
    \E k \in 1..Len(spans) :
        spans[k].offset <= q /\ q < spans[k].offset + spans[k].length

\* Every span has a length in [0, max_length - 1] and lies within an array
\* of length len.
SpansFit(spans, max_length, len) ==
    \A k \in 1..Len(spans) :
        /\ spans[k].length \in 0..(max_length - 1)
        /\ spans[k].offset >= 0
        /\ spans[k].offset + spans[k].length <= len

\* array is before with value written on the spans and nothing else changed.
WrittenOn(array, before, spans, value) ==
    /\ Len(array) = Len(before)
    /\ \A q \in 0..(Len(array) - 1) :
         array[q + 1] = IF Covered(spans, q) THEN value ELSE before[q + 1]

\* C19: every completed repetition of phoneme masking drew one span of
\* length in [0, phoneme_mask_max_length - 1] lying within the array and
\* wrote -1 on it in the phoneme-id channel and, at the same positions, in
\* the consonant-id channel if there is one; every other position of these
\* channels, the accent markers, the pitch, voiced and padded are as the
\* window sampler made them.
C19_PhonemeMaskSpans ==
    cfg.dataset = "sa" =>
        \A w \in DOMAIN call :
            call[w].pc \in PastWindow =>
                LET c == call[w]
                    r == WindowSamplerResult(c)
                    spans == PhonemeSpans(c)
                IN  /\ Len(MaskPairs(c)) = PhonemeRepetitions(c) + AccentRepetitions(c)
                    /\ SpansFit(spans, cfg.phoneme_mask_max_length, Len(c.phoneme_list))
                    /\ WrittenOn(c.phoneme_list, r.phoneme_list, spans, -1)
                    /\ c.consonant_phoneme_list # None =>
                          WrittenOn(c.consonant_phoneme_list[1],
                                    r.consonant_phoneme_list[1], spans, -1)
                    /\ OtherChannels(c) = OtherChannels(r)
                    /\ AccentRepetitions(c) = 0 =>
                          AccentChannels(c) = AccentChannels(r)

\* A returned example on which two repetitions wrote -1 on two different
\* positions, one of them holding a consonant id before.
C19_Witness ==
    \E w \in Returned :
        LET c == call[w]
            spans == PhonemeSpans(c)
        IN  /\ cfg.dataset = "sa"
            /\ Len(spans) = 2
            /\ spans[1].length = 1 /\ spans[2].length = 1
            /\ spans[1].offset # spans[2].offset
            /\ c.consonant_phoneme_list # None
            /\ WindowSamplerResult(c).consonant_phoneme_list[1][spans[1].offset + 1] >= 0
            /\ c.data[1].consonant_phoneme_list[1][spans[1].offset + 1] = -1

\* C20: every completed repetition of accent masking drew one span of
\* length in [0, accent_mask_max_length - 1] lying within the array and
\* wrote 0 on that same span in all four accent-marker channels; every
\* other position of these channels is as the window sampler made it, the
\* phoneme-id and consonant-id channels are as phoneme masking left them,
\* and the pitch, voiced and padded are as the window sampler made them.
C20_AccentMaskSpans ==
    cfg.dataset = "sa" =>
        \A w \in DOMAIN call :
            call[w].pc \in PastWindow =>
                LET c == call[w]
                    r == WindowSamplerResult(c)
                    spans == AccentSpans(c)
                IN  /\ SpansFit(spans, cfg.accent_mask_max_length,
                                Len(c.start_accent_list))
                    /\ WrittenOn(c.start_accent_list, r.start_accent_list,
                                 spans, FALSE)
                    /\ WrittenOn(c.end_accent_list, r.end_accent_list, spans, FALSE)
                    /\ WrittenOn(c.start_accent_phrase_list,
                                 r.start_accent_phrase_list, spans, FALSE)
                    /\ WrittenOn(c.end_accent_phrase_list,
                                 r.end_accent_phrase_list, spans, FALSE)
                    /\ WrittenOn(c.phoneme_list, r.phoneme_list, PhonemeSpans(c), -1)
                    /\ c.consonant_phoneme_list # None =>
                          WrittenOn(c.consonant_phoneme_list[1],
                                    r.consonant_phoneme_list[1], PhonemeSpans(c), -1)
                    /\ <<c.f0, c.voiced, c.padded>> = <<r.f0, r.voiced, r.padded>>
                    /\ c.pc = "done" =>
                          /\ c.data[1].start_accent_list = AsInt(c.start_accent_list)
                          /\ c.data[1].end_accent_list = AsInt(c.end_accent_list)
                          /\ c.data[1].start_accent_phrase_list =
                                AsInt(c.start_accent_phrase_list)
                          /\ c.data[1].end_accent_phrase_list =
                                AsInt(c.end_accent_phrase_list)

\* A returned example on which two repetitions erased two different
\* positions, one of them holding an end-of-accent marker before.
C20_Witness ==
    \E w \in Returned :
        LET c == call[w]
            spans == AccentSpans(c)
        IN  /\ cfg.dataset = "sa"
            /\ Len(spans) = 2
            /\ spans[1].length = 1 /\ spans[2].length = 1
            /\ spans[1].offset # spans[2].offset
            /\ WindowSamplerResult(c).end_accent_list[spans[2].offset + 1]
            /\ c.data[1].end_accent_list[spans[2].offset + 1] = 0

\* =====================================================================
\* CachePath.create_cache (utility/dataset_utility.py)
\* =====================================================================

\* Several processes call create_cache of CachePath objects with the same
\* src_path and dst_path.  world.files is the directory of dst_path: name 0
\* is dst_path, name p the temporary file NamedTemporaryFile made for
\* process p (its names are unique); a file is absent (None) or has a
\* content and a modification time.  inputs.src is the content of the
\* source file, absent when there is none.  call[p] is the position of
\* process p, with what its current call found and did; hist lists the
\* calls that have ended.

MaxCalls == 2

Procs == {1, 2}

DstName == 0

TempNameIsDst(p) == DstName

\* The name NamedTemporaryFile(dir=dst_path.parent, delete=False) returns.
TempName(p) == p

\* The content of the source file, written in this many pieces.
SrcBytes == <<7, 8>>

CacheIdle == [pc |-> "idle", entry |-> "", found |-> FALSE, ops |-> << >>, calls |-> 0, data |-> << >>]

FileOf(content) == Some([content |-> content, mtime |-> world.clock])

Did(c, op) == [c EXCEPT !.ops = Append(@, op)]

CacheInit ==
    /\ inputs \in {[src |-> None], [src |-> Some(SrcBytes)]}
    /\ \E dst \in {None, Some([content |-> SrcBytes, mtime |-> 0])} :
         world = [files |-> [name \in {DstName} \cup {TempName(p) : p \in Procs} |->
                                IF name = DstName THEN dst ELSE None],
                  clock |-> 1]
    /\ cfg = [dataset |-> "cache"]
    /\ call = [p \in Procs |-> CacheIdle]
    /\ gen = GenInit
    /\ hist = << >>
    /\ config = << >>
    /\ datasets = << >>

\* create_cache(), str() or os.fspath() is called (lines 27, 43-48).
CacheCall(p) ==
    /\ call[p].pc = "idle"
    /\ call[p].calls < MaxCalls
    /\ \E entry \in {"create_cache", "__str__", "__fspath__"} :
         call' = [call EXCEPT ![p] =
                    [@ EXCEPT !.pc = "exists", !.entry = entry,
                              !.found = FALSE, !.ops = << >>, !.data = << >>]]
    /\ UNCHANGED <<inputs, cfg, gen, hist, indexVars>>

\* Line 28: if self.dst_path.exists()
CacheExists(p) ==
    /\ call[p].pc = "exists"
    /\ call' = [call EXCEPT ![p] =
                  IF world.files[DstName] # None
                  THEN [@ EXCEPT !.pc = "touch", !.found = TRUE]
                  ELSE [@ EXCEPT !.pc = "check_src"]]
    /\ UNCHANGED <<inputs, cfg, gen, hist, indexVars>>

\* Lines 29-30: Path.touch() sets the times of an existing file, and makes
\* an empty file when there is none.
CacheTouch(p) ==
    /\ call[p].pc = "touch"
    /\ world' = [world EXCEPT
                   !.files[DstName] =
                      IF @ # None THEN Some([@[1] EXCEPT !.mtime = world.clock])
                      ELSE FileOf(<< >>),
                   !.clock = @ + 1]
    /\ call' = [call EXCEPT ![p] =
                  [Did(@, IF world.files[DstName] # None THEN "utime" ELSE "create")
                      EXCEPT !.pc = "return"]]
    /\ UNCHANGED <<inputs, cfg, gen, hist, config, datasets>>

\* Lines 32-35: the source is looked for and the parent directory made.
CacheCheckSrc(p) ==
    /\ call[p].pc = "check_src"
    /\ call' = [call EXCEPT ![p] =
                  IF inputs.src = None
                  THEN [@ EXCEPT !.pc = "raise"]
                  ELSE [@ EXCEPT !.pc = "tempfile"]]
    /\ UNCHANGED <<inputs, cfg, gen, hist, indexVars>>

\* Lines 37-38: NamedTemporaryFile makes an empty file of a new name.
CacheTempFile(p) ==
    /\ call[p].pc = "tempfile"
    /\ world' = [world EXCEPT !.files[TempName(p)] = FileOf(<< >>),
                              !.clock = @ + 1]
    /\ call' = [call EXCEPT ![p] =
                  [Did(@, "create") EXCEPT !.pc = "write",
                                           !.data = inputs.src[1]]]
    /\ UNCHANGED <<inputs, cfg, gen, hist, config, datasets>>

\* Line 40: write_bytes(read_bytes()); the bytes read reach the file piece
\* by piece.
CacheWrite(p) ==
    /\ call[p].pc = "write"
    /\ LET name == TempName(p)
           written == Len(world.files[name][1].content)
       IN  IF written < Len(call[p].data)
           THEN /\ world' = [world EXCEPT
                               !.files[name] =
                                  FileOf(Append(world.files[name][1].content,
                                                call[p].data[written + 1])),
                               !.clock = @ + 1]
                /\ call' = [call EXCEPT ![p] = Did(@, "write")]
           ELSE /\ call' = [call EXCEPT ![p].pc = "replace"]
                /\ UNCHANGED world
    /\ UNCHANGED <<inputs, cfg, gen, hist, config, datasets>>

\* Line 41: os.replace(name, dst_path) puts the file under the name
\* dst_path in one step.
CacheReplace(p) ==
    /\ call[p].pc = "replace"
    /\ LET name == TempName(p)
       IN  world' = [world EXCEPT
                       !.files = [n \in DOMAIN world.files |->
                                    IF n = DstName THEN world.files[name]
                                    ELSE IF n = name THEN None
                                    ELSE world.files[n]]]
    /\ call' = [call EXCEPT ![p] = [Did(@, "replace") EXCEPT !.pc = "return"]]
    /\ UNCHANGED <<inputs, cfg, gen, hist, config, datasets>>

\* The call ends: it returns (lines 30, 41, 45, 48) or raises (line 33).
CacheReturn(p) ==
    /\ call[p].pc \in {"return", "raise"}
    /\ hist' = Append(hist, [p |-> p, raised |-> call[p].pc = "raise",
                             found |-> call[p].found, ops |-> call[p].ops,
                             exists |-> world.files[DstName] # None])
    /\ call' = [call EXCEPT ![p] = [@ EXCEPT !.pc = "idle", !.calls = @ + 1]]
    /\ UNCHANGED <<inputs, cfg, gen, indexVars>>

CacheNext ==
    \/ \E p \in Procs : CacheCall(p)
    \/ \E p \in Procs : CacheExists(p)
    \/ \E p \in Procs : CacheTouch(p)
    \/ \E p \in Procs : CacheCheckSrc(p)
    \/ \E p \in Procs : CacheTempFile(p)
    \/ \E p \in Procs : CacheWrite(p)
    \/ \E p \in Procs : CacheReplace(p)
    \/ \E p \in Procs : CacheReturn(p)

SpecCache == CacheInit /\ [][CacheNext]_vars

\* C21: with an existing source, under every interleaving of the calls, the
\* destination is absent or holds the whole content of the source; it
\* exists when a call has returned normally; and a call that found it
\* existing has only set its time: it made no file and replaced none.
C21_CacheNeverPartial ==
    inputs.src # None =>
        /\ world.files[DstName] # None =>
              world.files[DstName][1].content = inputs.src[1]
        /\ \A k \in 1..Len(hist) :
              /\ ~hist[k].raised => hist[k].exists
              /\ hist[k].found => hist[k].ops = <<"utime">>
        /\ \A p \in Procs :
              call[p].found => \A k \in 1..Len(call[p].ops) : call[p].ops[k] = "utime"

\* Both processes found no destination and each put its copy in place, the
\* second over the first, while a later call found the destination and set
\* its time.
C21_Witness ==
    /\ inputs.src # None
    /\ \E p \in Procs : call[p].entry = "__fspath__"
    /\ \E i, j, k \in 1..Len(hist) :
         /\ i < j
         /\ hist[i].p # hist[j].p
         /\ ~hist[i].found /\ ~hist[j].found
         /\ ~hist[i].raised /\ ~hist[j].raised
         /\ hist[k].found
         /\ hist[j].ops = <<"create", "write", "write", "replace">>

====
